---- MODULE Spec2Model ----
(***************************************************************************)
(* TSMOM: dual-horizon time-series momentum signal (tsmom/strategy.py),    *)
(* single-position backtest engine and equity curve (backtest/engine.py).  *)
(*                                                                         *)
(* Numbers.  Prices are positive integers; a float that the code derives   *)
(* from them (momentum, score, pnl_pct) is an exact fraction n/d with      *)
(* d > 0, or NaN.  Comparisons with NaN are false, as in IEEE arithmetic.  *)
(* Timestamps are integer ticks, TicksPerDay ticks to a calendar day, and  *)
(* the index of the price table is strictly increasing.                    *)
(* Python objects.  Trade objects live in `heap`; a reference is the       *)
(* object's position in the heap, so that the list result.trades and the   *)
(* local current_position can alias one object as they do in the code.     *)
(* An Optional value is <<>> (None) or <<v>>.                              *)
(***************************************************************************)
EXTENDS Integers, Sequences, FiniteSets, TLC

\* ---------------------------------------------------------------- bounds
MaxLen == 4          \* longest price table
MaxPrice == 2        \* close prices are 1..MaxPrice
MaxTime == 4         \* timestamps are 1..MaxTime
MaxPeriod == 2       \* periods are -1..MaxPeriod
MaxThreshold == 1    \* thresholds are -1/ThresholdScale .. MaxThreshold/ThresholdScale
ThresholdScale == 2
TicksPerDay == 2
MaxTrendPrice == 4   \* rising price tables take their prices from 1..MaxTrendPrice

\* ------------------------------------------------------- program constants
WeightShort == 4     \* 0.4, in tenths
WeightLong == 6      \* 0.6, in tenths
WeightScale == 10
DefaultCapital == 10000

\* ------------------------------------------------------------ value types
None == <<>>
Some(v) == <<v>>

LONG == "LONG"
SHORT == "SHORT"
FLAT == "FLAT"
SignalState == {LONG, SHORT, FLAT}

NaN == [nan |-> TRUE, n |-> 0, d |-> 1]
Frac(a, b) == [nan |-> FALSE, n |-> a, d |-> b]
IsNaN(x) == x.nan

\* float comparisons: any comparison with NaN is False
FGt(x, y) == ~x.nan /\ ~y.nan /\ x.n * y.d > y.n * x.d
FLt(x, y) == ~x.nan /\ ~y.nan /\ x.n * y.d < y.n * x.d
FEq(x, y) == ~x.nan /\ ~y.nan /\ x.n * y.d = y.n * x.d
FNeg(x) == IF x.nan THEN NaN ELSE Frac(-x.n, x.d)
FAdd(x, y) == IF x.nan \/ y.nan THEN NaN ELSE Frac(x.n * y.d + y.n * x.d, x.d * y.d)
FScale(w, s, x) == IF x.nan THEN NaN ELSE Frac(w * x.n, s * x.d)

Periods == (-1)..MaxPeriod
Thresholds == {Frac(k, ThresholdScale) : k \in (-1)..MaxThreshold}
Capitals == {DefaultCapital}

\* strictly increasing timestamp sequences of length n
RECURSIVE IncreasingFrom(_, _)
IncreasingFrom(lo, n) ==
    IF n = 0 THEN {<<>>}
    ELSE UNION {{<<t>> \o s : s \in IncreasingFrom(t + 1, n - 1)} : t \in lo..MaxTime}

PriceTables ==
    UNION {{[close |-> c, index |-> ix] : c \in [1..n -> 1..MaxPrice], ix \in IncreasingFrom(1, n)}
           : n \in 0..MaxLen}

\* strictly increasing price sequences of length n within lo..MaxTrendPrice
RECURSIVE RisingFrom(_, _)
RisingFrom(lo, n) ==
    IF n = 0 THEN {<<>>}
    ELSE UNION {{<<c>> \o s : s \in RisingFrom(c + 1, n - 1)} : c \in lo..MaxTrendPrice}

\* pd.date_range(..., periods=n, freq='D'): one bar per calendar day
DailyIndex(n) == [r \in 1..n |-> r * TicksPerDay]

RisingTables ==
    UNION {{[close |-> c, index |-> DailyIndex(n)] : c \in RisingFrom(1, n)}
           : n \in 0..MaxTrendPrice}

\* ------------------------------------------------------ tsmom/strategy.py
\* prices.pct_change(periods=period) at row i (1-based): close[i]/close[i-period] - 1,
\* NaN where the shifted row does not exist
calculate_returns_offByOne(close, period, i) ==
    LET j == i - period + 1
    IN  IF j >= 1 /\ j <= Len(close)
        THEN Frac(close[i] - close[j], close[j])
        ELSE NaN

calculate_returns(close, period, i) ==
    LET j == i - period
    IN  IF j >= 1 /\ j <= Len(close)
        THEN Frac(close[i] - close[j], close[j])
        ELSE NaN

signal_score(ms, ml) ==
    FAdd(FScale(WeightShort, WeightScale, ms), FScale(WeightLong, WeightScale, ml))

\* signal_value starts 0, is set 1 where score > threshold, then -1 where score < -threshold
signal_value_inclusive(score, threshold) ==
    LET v1 == IF ~FLt(score, threshold) /\ ~IsNaN(score) THEN 1 ELSE 0
    IN  IF FLt(score, FNeg(threshold)) THEN -1 ELSE v1

signal_value(score, threshold) ==
    LET v1 == IF FGt(score, threshold) THEN 1 ELSE 0
    IN  IF FLt(score, FNeg(threshold)) THEN -1 ELSE v1

signal_state_map(v) ==
    CASE v = 1 -> LONG
      [] v = 0 -> FLAT
      [] v = -1 -> SHORT

generate_signals(strat, data) ==
    LET n == Len(data.close)
        ms == [i \in 1..n |-> calculate_returns(data.close, strat.period_short, i)]
        ml == [i \in 1..n |-> calculate_returns(data.close, strat.period_long, i)]
        sc == [i \in 1..n |-> signal_score(ms[i], ml[i])]
        sv == [i \in 1..n |-> signal_value(sc[i], strat.threshold)]
    IN  [close |-> data.close,
         index |-> data.index,
         momentum_short |-> ms,
         momentum_long |-> ml,
         signal_score |-> sc,
         signal_value |-> sv,
         signal_state |-> [i \in 1..n |-> signal_state_map(sv[i])]]

\* ----------------------------------------------------- backtest/engine.py
Trade(entry_time, entry_price, entry_state) ==
    [entry_time |-> entry_time,
     entry_price |-> entry_price,
     entry_state |-> entry_state,
     exit_time |-> None,
     exit_price |-> None,
     pnl |-> None,
     pnl_pct |-> None,
     bars_held |-> None]

\* (exit_time - entry_time).days
calculate_bars(t) ==
    IF t.exit_time # None
    THEN Some((t.exit_time[1] - t.entry_time) \div TicksPerDay)
    ELSE None

close_unsigned(t, exit_time, exit_price) ==
    LET t1 == [t EXCEPT !.exit_time = Some(exit_time), !.exit_price = Some(exit_price)]
        t2 == [t1 EXCEPT !.bars_held = calculate_bars(t1)]
    IN  [t2 EXCEPT !.pnl = Some(exit_price - t.entry_price),
                   !.pnl_pct = Some(Frac(exit_price - t.entry_price, t.entry_price))]

close(t, exit_time, exit_price) ==
    LET t1 == [t EXCEPT !.exit_time = Some(exit_time), !.exit_price = Some(exit_price)]
        t2 == [t1 EXCEPT !.bars_held = calculate_bars(t1)]
    IN  IF t.entry_state = LONG
        THEN [t2 EXCEPT !.pnl = Some(exit_price - t.entry_price),
                        !.pnl_pct = Some(Frac(exit_price - t.entry_price, t.entry_price))]
        ELSE [t2 EXCEPT !.pnl = Some(t.entry_price - exit_price),
                        !.pnl_pct = Some(Frac(t.entry_price - exit_price, t.entry_price))]

is_closed(t) == t.exit_price # None

\* ------------------------------------------------------------------ state
VARIABLES
    pc,                \* position in main: "new", "strategy", "engine", "loop", "equity", "done",
                       \* "summary", "analyzed", or "error" after an uncaught exception
    strategy,          \* None or Some(TSMOM instance)
    initial_capital,   \* None or Some(BacktestEngine.initial_capital)
    signals_df,        \* run: the table returned by generate_signals
    heap,              \* the Trade objects created so far
    trades,            \* result.trades: references into heap
    current_position,  \* run: None or Some(reference)
    current_state,     \* run: SignalState
    i,                 \* run: row about to be processed by the forward pass
    equity,            \* _calculate_equity_curve: values written so far
    cumulative_pnl,    \* _calculate_equity_curve
    j,                 \* _calculate_equity_curve: row about to be processed
    stats,             \* None or Some(dictionary returned by get_summary_stats)
    dist               \* None or Some(dictionary returned by get_trade_distribution)

vars == <<pc, strategy, initial_capital, signals_df, heap, trades, current_position,
          current_state, i, equity, cumulative_pnl, j, stats, dist>>

EmptyTable == generate_signals([period_short |-> 1, period_long |-> 1, threshold |-> Frac(0, 1)],
                               [close |-> <<>>, index |-> <<>>])

Init ==
    /\ pc = "new"
    /\ strategy = None
    /\ initial_capital = None
    /\ signals_df = EmptyTable
    /\ heap = <<>>
    /\ trades = <<>>
    /\ current_position = None
    /\ current_state = FLAT
    /\ i = 1
    /\ equity = <<>>
    /\ cumulative_pnl = 0
    /\ j = 1
    /\ stats = None
    /\ dist = None

\* TSMOM.__init__: stores its arguments, no validation
TSMOM_init(period_short, period_long, threshold) ==
    /\ pc = "new"
    /\ strategy' = Some([period_short |-> period_short,
                         period_long |-> period_long,
                         threshold |-> threshold])
    /\ pc' = "strategy"
    /\ UNCHANGED <<initial_capital, signals_df, heap, trades, current_position,
                   current_state, i, equity, cumulative_pnl, j>>
    /\ UNCHANGED <<stats, dist>>

BacktestEngine_init(capital) ==
    /\ pc = "strategy"
    /\ initial_capital' = Some(capital)
    /\ pc' = "engine"
    /\ UNCHANGED <<strategy, signals_df, heap, trades, current_position,
                   current_state, i, equity, cumulative_pnl, j>>
    /\ UNCHANGED <<stats, dist>>

\* run, up to the head of the forward pass
Run_begin(data) ==
    /\ pc = "engine"
    /\ signals_df' = generate_signals(strategy[1], data)
    /\ trades' = <<>>
    /\ current_position' = None
    /\ current_state' = FLAT
    /\ i' = 1
    /\ pc' = "loop"
    /\ UNCHANGED <<strategy, initial_capital, heap, equity, cumulative_pnl, j>>
    /\ UNCHANGED <<stats, dist>>

\* the test `new_state != current_state`
StateChanged_ignoresFlat(new_state, cur_state) == new_state # cur_state /\ new_state # FLAT

StateChanged_always(new_state, cur_state) == TRUE

StateChanged(new_state, cur_state) == new_state # cur_state

\* the test `new_state != SignalState.FLAT`
OpensPosition_always(new_state) == TRUE

OpensPosition_longOnly(new_state) == new_state = LONG

OpensPosition(new_state) == new_state # FLAT

\* entry_time=idx
EntryTime_prev(index, row) == index[IF row > 1 THEN row - 1 ELSE row]

EntryTime(index, row) == index[row]

\* the else branch: current_position = None
ElsePosition_keep(cur) == cur

ElsePosition(cur) == None

\* signals_df.index[-1], signals_df.iloc[-1]
LastRow_first(df) == 1

LastRow(df) == Len(df.close)

\* one iteration of `for idx, row in signals_df.iterrows()`
Run_bar ==
    /\ pc = "loop"
    /\ i <= Len(signals_df.close)
    /\ LET idx == signals_df.index[i]
           new_state == signals_df.signal_state[i]
           current_price == signals_df.close[i]
           closing == current_position # None
           heap1 == IF closing
                    THEN [heap EXCEPT ![current_position[1]] = close(@, idx, current_price)]
                    ELSE heap
           trades1 == IF closing THEN Append(trades, current_position[1]) ELSE trades
       IN  IF StateChanged(new_state, current_state)
           THEN /\ IF OpensPosition(new_state)
                   THEN /\ heap' = Append(heap1, Trade(EntryTime(signals_df.index, i),
                                                       current_price, new_state))
                        /\ current_position' = Some(Len(heap1) + 1)
                   ELSE /\ heap' = heap1
                        /\ current_position' = ElsePosition(current_position)
                /\ trades' = trades1
                /\ current_state' = new_state
           ELSE UNCHANGED <<heap, trades, current_position, current_state>>
    /\ i' = i + 1
    /\ UNCHANGED <<pc, strategy, initial_capital, signals_df, equity, cumulative_pnl, j>>
    /\ UNCHANGED <<stats, dist>>

\* after the last row: close the position that is still open
Run_finish ==
    /\ pc = "loop"
    /\ i > Len(signals_df.close)
    /\ IF current_position # None
       THEN LET n == LastRow(signals_df)
            IN  /\ heap' = [heap EXCEPT ![current_position[1]] =
                                close(@, signals_df.index[n], signals_df.close[n])]
                /\ trades' = Append(trades, current_position[1])
       ELSE UNCHANGED <<heap, trades>>
    /\ equity' = <<>>
    /\ cumulative_pnl' = 0
    /\ j' = 1
    /\ pc' = "equity"
    /\ UNCHANGED <<strategy, initial_capital, signals_df, current_position, current_state, i>>
    /\ UNCHANGED <<stats, dist>>

\* the first trade of the list with entry_time <= idx and (exit_time is None or exit_time >= idx)
IsActiveAt_strict(t, idx) == t.entry_time <= idx /\ (t.exit_time = None \/ t.exit_time[1] > idx)

IsActiveAt(t, idx) == t.entry_time <= idx /\ (t.exit_time = None \/ t.exit_time[1] >= idx)

ActiveTrade(h, tr, idx) ==
    LET hits == {k \in 1..Len(tr) : IsActiveAt(h[tr[k]], idx)}
    IN  IF hits = {} THEN None
        ELSE Some(tr[CHOOSE k \in hits : \A m \in hits : k <= m])

unrealized_pnl_unsigned(t, current_price) == current_price - t.entry_price

unrealized_pnl(t, current_price) ==
    IF t.entry_state = LONG
    THEN current_price - t.entry_price
    ELSE t.entry_price - current_price

\* one iteration of the loop of _calculate_equity_curve
Equity_bar ==
    /\ pc = "equity"
    /\ j <= Len(signals_df.close)
    /\ LET idx == signals_df.index[j]
           current_price == signals_df.close[j]
           active_trade == ActiveTrade(heap, trades, idx)
       IN  IF active_trade # None
           THEN LET t == heap[active_trade[1]]
                IN  /\ equity' = Append(equity, initial_capital[1] + cumulative_pnl
                                                + unrealized_pnl(t, current_price))
                    /\ cumulative_pnl' = IF t.exit_time = Some(idx)
                                         THEN cumulative_pnl + t.pnl[1]
                                         ELSE cumulative_pnl
           ELSE /\ equity' = Append(equity, initial_capital[1] + cumulative_pnl)
                /\ UNCHANGED cumulative_pnl
    /\ j' = j + 1
    /\ UNCHANGED <<pc, strategy, initial_capital, signals_df, heap, trades,
                   current_position, current_state, i>>
    /\ UNCHANGED <<stats, dist>>

\* result.equity_curve is assigned and run returns
Run_return ==
    /\ pc = "equity"
    /\ j > Len(signals_df.close)
    /\ pc' = "done"
    /\ UNCHANGED <<strategy, initial_capital, signals_df, heap, trades, current_position,
                   current_state, i, equity, cumulative_pnl, j>>
    /\ UNCHANGED <<stats, dist>>

\* ------------------------------------------------------- analysis/stats.py
RECURSIVE SeqSum(_)
SeqSum(s) == IF s = <<>> THEN 0 ELSE s[1] + SeqSum(Tail(s))

RECURSIVE FSum(_)
FSum(s) == IF s = <<>> THEN Frac(0, 1) ELSE FAdd(s[1], FSum(Tail(s)))

\* max(list), min(list) of a non-empty list
SeqMax(s) == CHOOSE x \in {s[k] : k \in 1..Len(s)} : \A m \in 1..Len(s) : s[m] <= x
SeqMin(s) == CHOOSE x \in {s[k] : k \in 1..Len(s)} : \A m \in 1..Len(s) : x <= s[m]

\* np.mean of a non-empty list of integers, of floats
Mean(s) == Frac(SeqSum(s), Len(s))
FMean(s) == FScale(1, Len(s), FSum(s))

\* [t for t in result.trades if t.is_closed()]
closed_trades(h, tr) == SelectSeq([k \in 1..Len(tr) |-> h[tr[k]]], is_closed)

IsWin(t) == t.pnl[1] > 0
IsLoss(t) == t.pnl[1] < 0
IsLong(t) == t.entry_state = LONG
IsShort(t) == t.entry_state = SHORT

\* the truth value of t.bars_held: None and 0 are false
BarsHeldTruthy(t) == t.bars_held # None /\ t.bars_held[1] # 0

\* the test `if not closed_trades`
NoClosedTrades_never(closed) == FALSE

NoClosedTrades(closed) == closed = <<>>

\* the dictionary returned for an empty set of closed trades; a statistic that
\* is a rate or a mean is a fraction in every branch, the literal 0 included
EmptySummary ==
    [total_trades |-> 0,
     winning_trades |-> 0,
     losing_trades |-> 0,
     win_rate |-> Frac(0, 1),
     total_pnl |-> 0,
     avg_pnl |-> Frac(0, 1),
     avg_pnl_pct |-> Frac(0, 1),
     largest_win |-> 0,
     largest_loss |-> 0,
     avg_bars_held |-> Frac(0, 1)]

\* the dictionary returned otherwise; closed is not empty
FullSummary(closed) ==
    LET n == Len(closed)
        pnls == [k \in 1..n |-> closed[k].pnl[1]]
        pnls_pct == [k \in 1..n |-> closed[k].pnl_pct[1]]
        held == SelectSeq(closed, BarsHeldTruthy)
        bars_held == [k \in 1..Len(held) |-> held[k].bars_held[1]]
    IN  [total_trades |-> n,
         winning_trades |-> Len(SelectSeq(closed, IsWin)),
         losing_trades |-> Len(SelectSeq(closed, IsLoss)),
         win_rate |-> Frac(Len(SelectSeq(closed, IsWin)), n),
         total_pnl |-> SeqSum(pnls),
         avg_pnl |-> Mean(pnls),
         avg_pnl_pct |-> FMean(pnls_pct),
         largest_win |-> SeqMax(pnls),
         largest_loss |-> SeqMin(pnls),
         avg_bars_held |-> IF bars_held # <<>> THEN Mean(bars_held) ELSE Frac(0, 1),
         max_bars_held |-> IF bars_held # <<>> THEN SeqMax(bars_held) ELSE 0,
         min_bars_held |-> IF bars_held # <<>> THEN SeqMin(bars_held) ELSE 0]

\* max(pnls) and min(pnls) raise ValueError on an empty list
SummaryRaises(closed) == ~NoClosedTrades(closed) /\ closed = <<>>

get_summary_stats ==
    /\ pc = "done"
    /\ LET closed == closed_trades(heap, trades)
       IN  IF SummaryRaises(closed)
           THEN /\ pc' = "error"
                /\ UNCHANGED stats
           ELSE /\ stats' = Some(IF NoClosedTrades(closed)
                                 THEN EmptySummary
                                 ELSE FullSummary(closed))
                /\ pc' = "summary"
    /\ UNCHANGED <<strategy, initial_capital, signals_df, heap, trades, current_position,
                   current_state, i, equity, cumulative_pnl, j, dist>>

Distribution(closed) ==
    LET long_trades == SelectSeq(closed, IsLong)
        short_trades == SelectSeq(closed, IsShort)
    IN  [long_trades |-> Len(long_trades),
         short_trades |-> Len(short_trades),
         long_win_rate |-> IF long_trades # <<>>
                           THEN Frac(Len(SelectSeq(long_trades, IsWin)), Len(long_trades))
                           ELSE Frac(0, 1),
         short_win_rate |-> IF short_trades # <<>>
                            THEN Frac(Len(SelectSeq(short_trades, IsWin)), Len(short_trades))
                            ELSE Frac(0, 1),
         long_avg_pnl_pct |-> IF long_trades # <<>>
                              THEN FMean([k \in 1..Len(long_trades) |-> long_trades[k].pnl_pct[1]])
                              ELSE Frac(0, 1),
         short_avg_pnl_pct |-> IF short_trades # <<>>
                               THEN FMean([k \in 1..Len(short_trades) |-> short_trades[k].pnl_pct[1]])
                               ELSE Frac(0, 1)]

get_trade_distribution ==
    /\ pc = "summary"
    /\ dist' = Some(Distribution(closed_trades(heap, trades)))
    /\ pc' = "analyzed"
    /\ UNCHANGED <<strategy, initial_capital, signals_df, heap, trades, current_position,
                   current_state, i, equity, cumulative_pnl, j, stats>>

Next ==
    \/ \E ps \in Periods, pl \in Periods, th \in Thresholds : TSMOM_init(ps, pl, th)
    \/ \E c \in Capitals : BacktestEngine_init(c)
    \/ \E data \in PriceTables : Run_begin(data)
    \/ Run_bar
    \/ Run_finish
    \/ Equity_bar
    \/ Run_return
    \/ get_summary_stats
    \/ get_trade_distribution

Spec == Init /\ [][Next]_vars

\* the same program run on rising price tables with daily bars
NextTrend ==
    \/ \E ps \in Periods, pl \in Periods, th \in Thresholds : TSMOM_init(ps, pl, th)
    \/ \E c \in Capitals : BacktestEngine_init(c)
    \/ \E data \in RisingTables : Run_begin(data)
    \/ Run_bar
    \/ Run_finish
    \/ Equity_bar
    \/ Run_return
    \/ get_summary_stats
    \/ get_trade_distribution

SpecTrend == Init /\ [][NextTrend]_vars

TypeOK ==
    /\ pc \in {"new", "strategy", "engine", "loop", "equity", "done", "summary", "analyzed"}
    /\ current_state \in SignalState
    /\ \A k \in 1..Len(trades) : trades[k] \in 1..Len(heap)

\* ----------------------------------------------------------------- claims
N == Len(signals_df.close)
Sig(r) == signals_df.signal_state[r]
TimeOf(r) == signals_df.index[r]
T(k) == heap[trades[k]]
Running == pc \in {"loop", "equity", "done", "summary", "analyzed"}
Returned == pc \in {"equity", "done", "summary", "analyzed"}

\* the trades of result.trades whose [entry_time, exit_time] contains ts
Matching(ts) == {k \in 1..Len(trades) : IsActiveAt(T(k), ts)}

\* C1 (as stated): any two distinct trades of result.trades have disjoint
\* [entry_time, exit_time] intervals, and at every timestamp of the table at
\* most one trade satisfies entry_time <= timestamp <= exit_time.
C1_DisjointIntervals ==
    /\ \A a, b \in 1..Len(trades) :
          a # b => \/ T(a).exit_time[1] < T(b).entry_time
                   \/ T(b).exit_time[1] < T(a).entry_time
    /\ Running => \A r \in 1..N : Cardinality(Matching(TimeOf(r))) <= 1

\* C1 (amended): the intervals of two distinct trades share at most one
\* timestamp, the exit_time of the earlier and entry_time of the next trade
\* of the list, whose entry states are then opposite (a direct flip between
\* LONG and SHORT); at any timestamp at most two trades match the lookup,
\* two only at such a flip bar, and the lookup returns the earlier of them.
C1_IntervalsShareOnlyFlipBar ==
    /\ \A a, b \in 1..Len(trades) :
          a < b => /\ T(a).exit_time[1] <= T(b).entry_time
                   /\ T(a).exit_time[1] = T(b).entry_time =>
                         /\ b = a + 1
                         /\ T(a).entry_state # T(b).entry_state
    /\ Running => \A r \in 1..N :
          LET m == Matching(TimeOf(r))
          IN  /\ Cardinality(m) <= 2
              /\ Cardinality(m) = 2 =>
                    \E k \in m : /\ m = {k, k + 1}
                                 /\ T(k).exit_time = Some(TimeOf(r))
                                 /\ T(k + 1).entry_time = TimeOf(r)
                                 /\ ActiveTrade(heap, trades, TimeOf(r)) = Some(trades[k])

\* a finished run with a direct flip: two trades of positive length meet on
\* one bar, which both match in the lookup
C1_Witness ==
    /\ pc = "done"
    /\ \E k \in 1..(Len(trades) - 1) :
          /\ T(k).entry_time < T(k).exit_time[1]
          /\ T(k).exit_time[1] = T(k + 1).entry_time
          /\ T(k + 1).entry_time < T(k + 1).exit_time[1]
          /\ Matching(T(k + 1).entry_time) = {k, k + 1}

\* the signal state held before row r is processed
PrevSig(r) == IF r = 1 THEN FLAT ELSE Sig(r - 1)

\* rows 1..m at which the signal changed away from a non-FLAT state
ChangesOutOfPosition(m) ==
    Cardinality({r \in 1..m : Sig(r) # PrevSig(r) /\ PrevSig(r) # FLAT})

\* C2: the number of trades appended to result.trades equals the number of
\* bars at which the signal changed away from a non-FLAT current_state, plus
\* one if a position is still open after the last bar; during the forward
\* pass the same count holds for the bars processed so far.
C2_CloseCount ==
    /\ pc = "loop" => Len(trades) = ChangesOutOfPosition(i - 1)
    /\ Returned => Len(trades) = ChangesOutOfPosition(N)
                                 + (IF N > 0 /\ Sig(N) # FLAT THEN 1 ELSE 0)

\* a finished run with a close into FLAT, a re-entry and a forced close
C2_Witness ==
    /\ pc = "done"
    /\ N > 0 /\ Sig(N) # FLAT
    /\ ChangesOutOfPosition(N) >= 1
    /\ \E r \in 2..N : Sig(r) = FLAT /\ Sig(r - 1) # FLAT
    /\ Len(trades) >= 2

\* C3: every closed trade has pnl = exit_price - entry_price if it is LONG,
\* pnl = entry_price - exit_price if it is SHORT, and pnl_pct = pnl / entry_price.
C3_SignLaw ==
    \A id \in 1..Len(heap) :
        LET t == heap[id]
        IN  is_closed(t) =>
              /\ t.entry_state = LONG => t.pnl = Some(t.exit_price[1] - t.entry_price)
              /\ t.entry_state = SHORT => t.pnl = Some(t.entry_price - t.exit_price[1])
              /\ t.pnl # None /\ t.pnl_pct # None
              /\ FEq(t.pnl_pct[1], Frac(t.pnl[1], t.entry_price))

\* a closed losing SHORT trade and a closed losing LONG trade
C3_Witness ==
    /\ \E id \in 1..Len(heap) :
          /\ is_closed(heap[id]) /\ heap[id].entry_state = SHORT
          /\ heap[id].exit_price[1] > heap[id].entry_price
    /\ \E id \in 1..Len(heap) :
          /\ is_closed(heap[id]) /\ heap[id].entry_state = LONG
          /\ heap[id].exit_price[1] < heap[id].entry_price

\* C4: a bar of the forward pass whose signal state equals current_state
\* leaves current_state, the open position and the closed trades unchanged.
C4_SameStateNoAction ==
    [][(pc = "loop" /\ i <= N /\ Sig(i) = current_state)
         => /\ current_state' = current_state
            /\ current_position' = current_position
            /\ trades' = trades
            /\ heap' = heap]_vars

\* a bar with an unchanged non-FLAT signal has just been processed while a
\* position is open and a trade is already in the list
C4_Witness ==
    /\ pc = "loop"
    /\ i >= 3
    /\ Sig(i - 1) = PrevSig(i - 1)
    /\ Sig(i - 1) # FLAT
    /\ current_position # None
    /\ heap[current_position[1]].entry_time < TimeOf(i - 1)

\* C5: on a bar where the signal changes while a trade is open, that trade
\* is closed at this bar's timestamp and price and appended to the output;
\* if the new state is LONG or SHORT a new trade is opened on this bar with
\* entry_state the new state; current_state becomes the new state.
C5_CloseAndReopen ==
    [][(pc = "loop" /\ i <= N /\ Sig(i) # current_state /\ current_position # None)
         => LET old == current_position[1]
            IN  /\ heap'[old].exit_time = Some(TimeOf(i))
                /\ heap'[old].exit_price = Some(signals_df.close[i])
                /\ is_closed(heap'[old])
                /\ trades' = Append(trades, old)
                /\ Sig(i) \in {LONG, SHORT} =>
                      /\ current_position' # None
                      /\ current_position' # current_position
                      /\ current_position'[1] \notin 1..Len(heap)
                      /\ heap'[current_position'[1]] =
                            Trade(TimeOf(i), signals_df.close[i], Sig(i))
                /\ current_state' = Sig(i)]_vars

\* a direct flip has just been processed: the last trade of the list was
\* closed on the bar on which the open position was entered
C5_Witness ==
    /\ pc = "loop"
    /\ i >= 2
    /\ Sig(i - 1) \in {LONG, SHORT}
    /\ PrevSig(i - 1) \in {LONG, SHORT}
    /\ Sig(i - 1) # PrevSig(i - 1)
    /\ Len(trades) >= 1
    /\ T(Len(trades)).exit_time = Some(TimeOf(i - 1))
    /\ current_position # None
    /\ heap[current_position[1]].entry_time = TimeOf(i - 1)

\* C6: when run finishes every trade of result.trades is closed (exit_time,
\* exit_price and pnl set); a trade still open after the last bar is closed
\* at the last bar's timestamp and price and is the last element of the list.
C6_AllClosedAtEnd ==
    Returned =>
        /\ \A k \in 1..Len(trades) :
              /\ is_closed(T(k))
              /\ T(k).exit_time # None
              /\ T(k).pnl # None
        /\ current_position # None =>
              /\ Len(trades) >= 1
              /\ trades[Len(trades)] = current_position[1]
              /\ T(Len(trades)).exit_time = Some(TimeOf(N))
              /\ T(Len(trades)).exit_price = Some(signals_df.close[N])

\* a finished run whose last trade was entered before the last bar and was
\* force-closed there
C6_Witness ==
    /\ pc = "done"
    /\ current_position # None
    /\ Len(trades) >= 2
    /\ T(Len(trades)).entry_time < TimeOf(N)
    /\ T(Len(trades)).exit_time = Some(TimeOf(N))

\* C7: no trade is created with entry_state FLAT: a bar that takes the
\* signal to FLAT creates no trade and leaves no position open, and every
\* trade that exists has entry_state LONG or SHORT.
C7_NoFlatTrade ==
    [][/\ \A id \in 1..Len(heap') : heap'[id].entry_state \in {LONG, SHORT}
       /\ (pc = "loop" /\ i <= N /\ Sig(i) = FLAT)
             => /\ Len(heap') = Len(heap)
                /\ current_position' = None]_vars

\* a transition from a position into FLAT has just been processed
C7_Witness ==
    /\ pc = "loop"
    /\ i >= 3
    /\ Sig(i - 1) = FLAT
    /\ PrevSig(i - 1) # FLAT
    /\ Len(trades) >= 1
    /\ current_position = None

EmptyExit(t) ==
    /\ t.exit_time = None /\ t.exit_price = None
    /\ t.pnl = None /\ t.pnl_pct = None /\ t.bars_held = None

InTrades(tr, id) == \E k \in 1..Len(tr) : tr[k] = id

\* C8: a trade is created with empty exit fields; its fields change only by
\* one Trade.close, applied while it is open and not yet in result.trades;
\* once it is in result.trades no step of run (a later bar, the final close,
\* the equity pass) changes it, it is in the list once, and when run returns
\* every trade created has been closed.
C8_ClosedOnce ==
    [][/\ \A id \in 1..Len(heap') :
             IF id > Len(heap)
             THEN EmptyExit(heap'[id])
             ELSE heap'[id] # heap[id] =>
                     /\ EmptyExit(heap[id])
                     /\ ~InTrades(trades, id)
                     /\ is_closed(heap'[id])
                     /\ InTrades(trades', id)
       /\ Len(heap') >= Len(heap)
       /\ \A a, b \in 1..Len(trades') : a # b => trades'[a] # trades'[b]
       /\ pc' \in {"equity", "done"} =>
             \A id \in 1..Len(heap') : is_closed(heap'[id]) /\ InTrades(trades', id)]_vars

\* a finished run in which a trade closed by a signal change was followed
\* by later bars, the final close and the equity pass
C8_Witness ==
    /\ pc = "done"
    /\ Len(trades) >= 2
    /\ T(1).exit_time[1] < TimeOf(N)
    /\ current_position # None
    /\ Len(equity) = N

\* the score of row r, from the prices: defined when both shifted rows exist,
\* and then (4*(c-a)/a + 6*(c-b)/b)/10 = ScoreNum/ScoreDen with ScoreDen > 0
ScoreDefined(r) ==
    /\ r - strategy[1].period_short \in 1..N
    /\ r - strategy[1].period_long \in 1..N
ScoreNum(r) ==
    LET c == signals_df.close[r]
        a == signals_df.close[r - strategy[1].period_short]
        b == signals_df.close[r - strategy[1].period_long]
    IN  4 * (c - a) * b + 6 * (c - b) * a
ScoreDen(r) ==
    10 * signals_df.close[r - strategy[1].period_short]
       * signals_df.close[r - strategy[1].period_long]
ScoreAbove(r) ==
    ScoreDefined(r) /\ ScoreNum(r) * strategy[1].threshold.d
                          > strategy[1].threshold.n * ScoreDen(r)
ScoreBelow(r) ==
    ScoreDefined(r) /\ ScoreNum(r) * strategy[1].threshold.d
                          < (-strategy[1].threshold.n) * ScoreDen(r)

\* C9: generate_signals makes a bar LONG exactly when its score is defined
\* and score > threshold, SHORT exactly when its score is defined and
\* score < -threshold, and FLAT otherwise, with
\* score = 0.4*momentum_short + 0.6*momentum_long.
C9_Classification ==
    Running => \A r \in 1..N :
        /\ Sig(r) = LONG <=> ScoreAbove(r)
        /\ Sig(r) = SHORT <=> ScoreBelow(r)
        /\ Sig(r) = FLAT <=> ~ScoreAbove(r) /\ ~ScoreBelow(r)

\* C10: for positive periods every bar with (0-based) index below
\* max(period_short, period_long) has an undefined score and state FLAT, and
\* no trade has its entry at such a bar.
WarmUp ==
    IF strategy[1].period_short > strategy[1].period_long
    THEN strategy[1].period_short ELSE strategy[1].period_long

C10_WarmUpFlat ==
    (Running /\ strategy[1].period_short > 0 /\ strategy[1].period_long > 0) =>
        \A r \in 1..N : r <= WarmUp =>
            /\ IsNaN(signals_df.signal_score[r])
            /\ Sig(r) = FLAT
            /\ \A id \in 1..Len(heap) : heap[id].entry_time # TimeOf(r)

\* positive periods, a table longer than the warm-up window and a trade
\* entered on the first bar after it
C10_Witness ==
    /\ pc = "done"
    /\ strategy[1].period_short > 0 /\ strategy[1].period_long > 0
    /\ strategy[1].period_short # strategy[1].period_long
    /\ N > WarmUp
    /\ Len(trades) >= 1
    /\ T(1).entry_time = TimeOf(WarmUp + 1)

\* the sum of pnl over the trades of result.trades at the positions in ks
RECURSIVE PnlOver(_)
PnlOver(ks) ==
    IF ks = {} THEN 0
    ELSE LET k == CHOOSE x \in ks : TRUE
         IN  T(k).pnl[1] + PnlOver(ks \ {k})

ExitedBefore(ts) == {k \in 1..Len(trades) : T(k).exit_time[1] < ts}
ExitedBy(ts) == {k \in 1..Len(trades) : T(k).exit_time[1] <= ts}

\* the unrealized pnl at row r of the trade the lookup finds there, 0 if none
UnrealizedAt(r) ==
    LET a == ActiveTrade(heap, trades, TimeOf(r))
    IN  IF a = None THEN 0
        ELSE IF heap[a[1]].entry_state = LONG
             THEN signals_df.close[r] - heap[a[1]].entry_price
             ELSE heap[a[1]].entry_price - signals_df.close[r]

\* C11: the equity value of every bar is initial_capital plus the pnl of the
\* trades that exited strictly before the bar plus the unrealized pnl, at the
\* bar's price, of the trade active at the bar; after a bar is processed the
\* realized accumulator holds the pnl of exactly the trades that have exited
\* by that bar, so a closing trade is counted once on its closing bar (as
\* unrealized) and once on every later bar (as realized).
C11_EquityValue ==
    Returned =>
        /\ \A r \in 1..Len(equity) :
              equity[r] = initial_capital[1] + PnlOver(ExitedBefore(TimeOf(r)))
                          + UnrealizedAt(r)
        /\ cumulative_pnl = (IF j = 1 THEN 0 ELSE PnlOver(ExitedBy(TimeOf(j - 1))))

\* a finished curve with a trade of non-zero pnl closed before the last bar
\* and a later trade open on the last bar
C11_Witness ==
    /\ pc = "done"
    /\ Len(equity) = N
    /\ Len(trades) >= 2
    /\ T(1).pnl[1] # 0
    /\ T(1).exit_time[1] < TimeOf(N)
    /\ equity[N] # initial_capital[1]
    /\ cumulative_pnl # T(1).pnl[1]

\* result.total_pnl
TotalPnl == PnlOver({k \in 1..Len(trades) : is_closed(T(k))})

\* C12: for a non-empty price series the last equity value equals
\* initial_capital + result.total_pnl, the pnl of the trades closed by a state
\* change plus the unrealized pnl at the last price of the position that was
\* open before the final close.
C12_FinalEquity ==
    (pc = "done" /\ N > 0) =>
        /\ equity[N] = initial_capital[1] + TotalPnl
        /\ LET forced == IF current_position # None THEN {Len(trades)} ELSE {}
               last == IF current_position = None THEN 0
                       ELSE IF heap[current_position[1]].entry_state = LONG
                            THEN signals_df.close[N] - heap[current_position[1]].entry_price
                            ELSE heap[current_position[1]].entry_price - signals_df.close[N]
           IN  equity[N] = initial_capital[1] + PnlOver((1..Len(trades)) \ forced) + last

\* a finished run with a trade closed by a state change and a SHORT position
\* of non-zero pnl closed by the final close
C12_Witness ==
    /\ pc = "done"
    /\ N > 0
    /\ Len(trades) >= 2
    /\ current_position # None
    /\ heap[current_position[1]].entry_state = SHORT
    /\ heap[current_position[1]].pnl[1] # 0
    /\ equity[N] # initial_capital[1]

\* C13 (as stated): a strategy with a non-positive period_short or
\* period_long, or with a negative threshold, is rejected at construction:
\* no TSMOM instance holds such parameters and no signals come from one.
C13_InvalidConfigurationRejected ==
    strategy # None =>
        /\ strategy[1].period_short > 0
        /\ strategy[1].period_long > 0
        /\ strategy[1].threshold.n >= 0

\* C14: a run on a zero-length price sequence raises no error and yields no
\* trades and an empty equity curve, and get_summary_stats and
\* get_trade_distribution accept that result without error.
C14_EmptyInput ==
    (pc \notin {"new", "strategy", "engine"} /\ N = 0) =>
        /\ pc # "error"
        /\ trades = <<>>
        /\ heap = <<>>
        /\ equity = <<>>
        /\ pc \in {"summary", "analyzed"} => stats # None
        /\ pc = "analyzed" => dist # None

\* the analysis of the result of a run on an empty table has returned
C14_Witness ==
    /\ pc = "analyzed"
    /\ N = 0
    /\ stats # None
    /\ dist # None

\* the keys of the dictionaries returned for a non-empty set of closed
\* trades, and those among them whose value is a rate or a mean
SummaryKeys ==
    {"total_trades", "winning_trades", "losing_trades", "win_rate", "total_pnl",
     "avg_pnl", "avg_pnl_pct", "largest_win", "largest_loss", "avg_bars_held",
     "max_bars_held", "min_bars_held"}
DistributionKeys ==
    {"long_trades", "short_trades", "long_win_rate", "short_win_rate",
     "long_avg_pnl_pct", "short_avg_pnl_pct"}
FloatKeys ==
    {"win_rate", "avg_pnl", "avg_pnl_pct", "avg_bars_held", "long_win_rate",
     "short_win_rate", "long_avg_pnl_pct", "short_avg_pnl_pct"}

PresentAndZero(dict, key) ==
    /\ key \in DOMAIN dict
    /\ IF key \in FloatKeys THEN FEq(dict[key], Frac(0, 1)) ELSE dict[key] = 0

\* C15 (as stated): when the set of closed trades is empty, every statistic
\* that get_summary_stats and get_trade_distribution report for a non-empty
\* set is present in the returned dictionary with value zero.
C15_EmptyStatsAllZero ==
    (pc = "analyzed" /\ closed_trades(heap, trades) = <<>>) =>
        /\ \A key \in SummaryKeys : PresentAndZero(stats[1], key)
        /\ \A key \in DistributionKeys : PresentAndZero(dist[1], key)

\* bars_held of every closed trade of the result
AllBarsHeld ==
    LET closed == closed_trades(heap, trades)
    IN  [k \in 1..Len(closed) |-> closed[k].bars_held[1]]

\* C18 (as stated): avg_bars_held, max_bars_held and min_bars_held are the
\* mean, maximum and minimum of bars_held over every closed trade of the
\* result, whatever its duration, bars_held being the elapsed days between
\* entry_time and exit_time.
C18_HoldingStatsOverAllClosed ==
    (pc \in {"summary", "analyzed"} /\ closed_trades(heap, trades) # <<>>) =>
        /\ \A k \in 1..Len(trades) :
              T(k).bars_held = Some((T(k).exit_time[1] - T(k).entry_time) \div TicksPerDay)
        /\ FEq(stats[1].avg_bars_held, Frac(SeqSum(AllBarsHeld), Len(AllBarsHeld)))
        /\ stats[1].max_bars_held = SeqMax(AllBarsHeld)
        /\ stats[1].min_bars_held = SeqMin(AllBarsHeld)

Rising == \A r \in 2..N : signals_df.close[r - 1] < signals_df.close[r]
Constant == \A r \in 2..N : signals_df.close[r - 1] = signals_df.close[r]

OneLongTradeToTheEnd ==
    /\ Len(trades) = 1
    /\ T(1).entry_state = LONG
    /\ T(1).exit_time = Some(TimeOf(N))
    /\ T(1).exit_price = Some(signals_df.close[N])
    /\ T(1).pnl # None
    /\ T(1).pnl[1] > 0

\* C16 (as stated): for a strictly increasing series of positive prices
\* longer than period_long, with threshold 0, the backtest produces exactly
\* one trade, LONG, force-closed at the final bar, with pnl > 0.
C16_RisingOneTrade ==
    (Returned /\ Rising /\ strategy[1].threshold.n = 0 /\ N > strategy[1].period_long)
        => OneLongTradeToTheEnd

\* C16 (amended): the same result for periods that are not negative and not
\* both zero and a series longer than max(period_short, period_long) + 1;
\* the trade is entered on the first bar after the warm-up window.
C16_RisingOneTradeAfterWarmUp ==
    (/\ Returned /\ Rising /\ strategy[1].threshold.n = 0
     /\ strategy[1].period_short >= 0 /\ strategy[1].period_long >= 0
     /\ WarmUp > 0
     /\ N > WarmUp + 1)
        => /\ OneLongTradeToTheEnd
           /\ T(1).entry_time = TimeOf(WarmUp + 1)

\* a finished run on a rising table two bars longer than the longer of two
\* different positive periods
C16_Witness ==
    /\ pc = "done"
    /\ Rising
    /\ strategy[1].threshold.n = 0
    /\ strategy[1].period_short > 0
    /\ strategy[1].period_long > strategy[1].period_short
    /\ N = WarmUp + 2
    /\ Len(trades) = 1
    /\ T(1).pnl[1] > 0

\* C17: for a constant price series and a threshold >= 0 every bar is FLAT,
\* run produces no trade and every equity value equals initial_capital.
C17_ConstantNoTrades ==
    (Running /\ Constant /\ strategy[1].threshold.n >= 0) =>
        /\ \A r \in 1..N : Sig(r) = FLAT
        /\ heap = <<>>
        /\ trades = <<>>
        /\ \A r \in 1..Len(equity) : equity[r] = initial_capital[1]
        /\ pc # "loop" /\ pc # "equity" => Len(equity) = N

\* a finished run on a constant table with bars after the warm-up window,
\* where the score is defined and equal to 0
C17_Witness ==
    /\ pc = "done"
    /\ Constant
    /\ strategy[1].threshold.n = 0
    /\ strategy[1].period_short > 0 /\ strategy[1].period_long > 0
    /\ N >= WarmUp + 2
    /\ ~IsNaN(signals_df.signal_score[N])
    /\ Len(equity) = N

OpenTrades == {id \in 1..Len(heap) : ~is_closed(heap[id])}

\* C19: after any prefix of the forward pass at most one trade is open; one
\* is open exactly when current_state is LONG or SHORT, it is the current
\* position and its entry_state is current_state; current_state is the
\* signal state of the last processed bar, FLAT before the first.
C19_SinglePosition ==
    pc = "loop" =>
        /\ Cardinality(OpenTrades) <= 1
        /\ OpenTrades # {} <=> current_state \in {LONG, SHORT}
        /\ current_position # None <=> OpenTrades # {}
        /\ \A id \in OpenTrades :
              /\ current_position = Some(id)
              /\ heap[id].entry_state = current_state
              /\ ~InTrades(trades, id)
        /\ current_state = PrevSig(i)

\* in the forward pass, a second position is open after the first one was
\* closed into FLAT
C19_Witness ==
    /\ pc = "loop"
    /\ i = N + 1
    /\ Len(trades) = 1
    /\ T(1).exit_time[1] < TimeOf(N)
    /\ current_position # None
    /\ heap[current_position[1]].entry_time > T(1).exit_time[1]

\* the signal went from LONG to SHORT or from SHORT to LONG at row r
FlipAt(r) ==
    /\ r >= 2
    /\ Sig(r) # FLAT /\ Sig(r - 1) # FLAT
    /\ Sig(r) # Sig(r - 1)

\* C20: result.trades is in chronological order: every trade has
\* entry_time <= exit_time, and consecutive trades k, k+1 have
\* exit_time of k <= entry_time of k+1, with equality exactly when the signal
\* flipped directly between LONG and SHORT on the bar that closed k, and
\* then the two trades have opposite entry_state.
C20_Chronological ==
    /\ \A k \in 1..Len(trades) : T(k).entry_time <= T(k).exit_time[1]
    /\ \A k \in 1..(Len(trades) - 1) :
          /\ T(k).exit_time[1] <= T(k + 1).entry_time
          /\ \A r \in 1..N : TimeOf(r) = T(k).exit_time[1] =>
                (T(k).exit_time[1] = T(k + 1).entry_time <=> FlipAt(r))
          /\ T(k).exit_time[1] = T(k + 1).entry_time =>
                /\ T(k).entry_state # T(k + 1).entry_state
                /\ {T(k).entry_state, T(k + 1).entry_state} = {LONG, SHORT}

\* a finished run whose list holds a trade held over several bars, closed by
\* a direct flip on a row before the last, and the opposite trade after it
C20_Witness ==
    /\ pc = "done"
    /\ \E k \in 1..(Len(trades) - 1) : \E r \in 2..(N - 1) :
          /\ FlipAt(r)
          /\ T(k).exit_time = Some(TimeOf(r))
          /\ T(k).entry_time < TimeOf(r)
          /\ T(k + 1).entry_time = TimeOf(r)
          /\ T(k + 1).entry_state # T(k).entry_state
====
